---- MODULE Spec2Model ----
(***************************************************************************)
(* The kernel heap of panopticon: the buddy allocator, the Sleb sub-page   *)
(* allocator built on top of it, and the GlobalAlloc dispatcher            *)
(* (kernel/src/allocator/mod.rs, kernel/src/allocator/sleb.rs).            *)
(*                                                                         *)
(* Addresses are absolute byte addresses.  HEAP_START keeps the low 28     *)
(* bits of the source's 0x4444_4444_0000 so that every address fits the    *)
(* model checker's integers; every residue of an address modulo a power of *)
(* two up to 2^28 is the one the kernel sees.  A u64 bitmap is the set of  *)
(* the positions of its one bits.                                          *)
(***************************************************************************)
EXTENDS Integers, Sequences, FiniteSets, TLC

\* ------------------------------------------------------------------ bounds
MaxOps == 5          \* calls of alloc/dealloc in one run of Spec
MaxOpsSizes == 2     \* calls of alloc/dealloc in one run of SpecSizes
MaxOpsFull == 3      \* calls made in a run of SpecFull once Sleb is full
MaxOpsCtx == 4       \* calls begun in one run of SpecCtx
NumCtx == 2          \* execution contexts that call the allocator
MaxN == 3            \* largest capacity N of a CircularBuffer
MaxItem == 2         \* the items pushed are 1 .. MaxItem
MaxCalls == 4        \* calls of push_back/pop_back in one run of SpecBuffer
MaxOpsBuddy == 5      \* calls made in one run of SpecBuddy
MaxOpsPool == 2          \* calls made on a drawn Sleb pool
MaxListOps == 4      \* calls of push_block/pop_head/remove_block in one run of SpecLists
MaxListOrder == 2    \* SpecLists works on the lists of orders 0 .. MaxListOrder
MaxListBlock == 3    \* SpecLists works on blocks 1 .. MaxListBlock

\* ------------------------------------------------- constants of mod.rs
HEAP_START == 71565312
KB == 1024
HEAP_SIZE == 4096 * KB
HEAP_END == HEAP_START + HEAP_SIZE
PAGESIZE == 4096
BLOCK_SIZE == PAGESIZE

RECURSIVE ilog2(_)
ilog2(n) == IF n <= 1 THEN 0 ELSE 1 + ilog2(n \div 2)

START_ORDER == ilog2(PAGESIZE)
NUM_ORDERS == ilog2(HEAP_SIZE) - START_ORDER
NUM_BLOCKS == HEAP_SIZE \div 4096
NO_BLOCK == 65535

\* Option::None of an index, and the null pointer
None == -1
NULL == 0

\* ---------------------------------------------------- u64 bit arithmetic
\* num >> n on a value below 2^31
Shr(num, n) == IF n >= 31 THEN 0 ELSE num \div (2 ^ n)

RECURSIVE BitOr(_, _)
BitOr(x, y) ==
    IF x = 0 THEN y
    ELSE IF y = 0 THEN x
    ELSE (IF x % 2 = 1 \/ y % 2 = 1 THEN 1 ELSE 0) + 2 * BitOr(x \div 2, y \div 2)

Max(x, y) == IF x >= y THEN x ELSE y

\* ----------------------------------------------------------------- Block
Block(p, n, o, f) == [previous |-> p, next |-> n, order |-> o, free |-> f]

split(order, index) ==
    LET new_order == order - 1
        left_block == index
        right_block == left_block + 2 ^ new_order
    IN  <<left_block, right_block>>

index_to_ptr(index) == HEAP_START + index * BLOCK_SIZE

get_buddy_index_parent_size(order, address) ==
    LET shifted_address == address - HEAP_START
        is_lower == shifted_address % (2 ^ (order + 1 + START_ORDER)) = 0
        buddy_address == IF is_lower
                         THEN shifted_address + 2 ^ (order + 1 + START_ORDER)
                         ELSE IF shifted_address - 2 ^ (order + 1 + START_ORDER) < 0
                              THEN None
                              ELSE shifted_address - 2 ^ (order + 1 + START_ORDER)
    IN  IF buddy_address = None THEN None
        ELSE IF buddy_address + HEAP_START < HEAP_END
             THEN buddy_address \div PAGESIZE
             ELSE None

get_buddy_index(order, address) ==
    LET shifted_address == address - HEAP_START
        is_lower == shifted_address % (2 ^ (order + 1 + START_ORDER)) = 0
        buddy_address == IF is_lower
                         THEN shifted_address + 2 ^ (order + START_ORDER)
                         ELSE IF shifted_address - 2 ^ (order + START_ORDER) < 0
                              THEN None
                              ELSE shifted_address - 2 ^ (order + START_ORDER)
    IN  IF buddy_address = None THEN None
        ELSE IF buddy_address + HEAP_START < HEAP_END
             THEN buddy_address \div PAGESIZE
             ELSE None

\* -------------------------------------------------------- BuddyAllocator
\* new() builds a modified copy `blocks` but returns the unmodified array.
new ==
    LET block == Block(NO_BLOCK, NO_BLOCK, 1, FALSE)
    IN  [blocks |-> [i \in 0 .. NUM_BLOCKS - 1 |-> block],
         heads  |-> [o \in 0 .. NUM_ORDERS - 1 |->
                        IF o = NUM_ORDERS - 1 THEN 0 ELSE NO_BLOCK]]

get_block_index(block_ptr) == (block_ptr - HEAP_START) \div PAGESIZE

\* A call's outcome: the state after it, the value returned, and how it
\* ended: normally, in a panic (the state keeps what was written before the
\* panic), or never (a loop that does not end).
OK == "ok"
PANIC == "panic"
HANG == "hang"
Res(a, ret, st) == [a |-> a, ret |-> ret, st |-> st]

pop_head(a, order) ==
    IF order \notin DOMAIN a.heads THEN Res(a, None, PANIC)
    ELSE LET head_index == a.heads[order] IN
         IF head_index = NO_BLOCK THEN Res(a, None, OK)
         ELSE IF head_index \notin DOMAIN a.blocks THEN Res(a, None, PANIC)
         ELSE LET a1 == [a EXCEPT !.blocks[head_index].free = FALSE]
                  head == a1.blocks[head_index]
              IN  IF head_index \notin DOMAIN a1.heads
                  THEN Res(a1, None, PANIC)
                  ELSE Res([a1 EXCEPT !.heads[head_index] = head.next],
                           head_index, OK)

push_block(a, dbg, order, block_index) ==
    IF block_index \notin DOMAIN a.blocks THEN Res(a, None, PANIC)
    ELSE IF dbg /\ a.blocks[block_index].free THEN Res(a, None, PANIC)
    ELSE IF order \notin DOMAIN a.heads THEN Res(a, None, PANIC)
    ELSE LET head_index == a.heads[order] IN
         IF head_index # NO_BLOCK /\ head_index \notin DOMAIN a.blocks
         THEN Res(a, None, PANIC)
         ELSE LET a1 == IF head_index # NO_BLOCK
                        THEN [a EXCEPT !.blocks[head_index].previous = block_index]
                        ELSE a
                  a2 == [a1 EXCEPT !.heads[order] = block_index]
              IN  Res([a2 EXCEPT !.blocks[block_index].next = head_index,
                                 !.blocks[block_index].order = order,
                                 !.blocks[block_index].free = TRUE],
                      None, OK)

remove_block(a, dbg, order, block_index) ==
    IF block_index \notin DOMAIN a.blocks THEN Res(a, None, PANIC)
    ELSE IF dbg /\ ~a.blocks[block_index].free THEN Res(a, None, PANIC)
    ELSE
    LET a1 == [a EXCEPT !.blocks[block_index].free = FALSE]
        prev_index == a1.blocks[block_index].previous
        next_index == a1.blocks[block_index].next
        \* first if / else if
        r2 == IF prev_index # NO_BLOCK
              THEN IF prev_index \notin DOMAIN a1.blocks
                   THEN Res([a1 EXCEPT !.blocks[block_index].previous = NO_BLOCK],
                            None, PANIC)
                   ELSE Res([a1 EXCEPT !.blocks[block_index].previous = NO_BLOCK,
                                       !.blocks[prev_index].next = next_index],
                            None, OK)
              ELSE IF order \notin DOMAIN a1.heads THEN Res(a1, None, PANIC)
              ELSE IF a1.heads[order] = block_index
                   THEN Res([a1 EXCEPT !.heads[order] = next_index], None, OK)
                   ELSE Res(a1, None, OK)
    IN  IF r2.st # OK THEN r2
        ELSE IF next_index = NO_BLOCK THEN r2
        ELSE IF next_index \notin DOMAIN a1.blocks
             THEN Res([r2.a EXCEPT !.blocks[block_index].next = NO_BLOCK], None, PANIC)
             ELSE Res([r2.a EXCEPT !.blocks[block_index].next = NO_BLOCK,
                                   !.blocks[next_index].previous = prev_index],
                      None, OK)

\* num |= num >> n
Smear(num, n) == BitOr(num, Shr(num, n))

round_up_pow2_no_decrement(num) ==
    Smear(Smear(Smear(Smear(Smear(Smear(num, 1), 2), 4), 8), 16), 32) + 1

round_up_pow2(num) ==
    Smear(Smear(Smear(Smear(Smear(Smear(num - 1, 1), 2), 4), 8), 16), 32) + 1

\* ------------------------------------- GlobalAlloc for Locked<BuddyAllocator>
\* lines 209-219: the order a request that goes to the buddy allocator asks for
order_start(size, align) ==
    (IF size > align
     THEN ilog2(Max(PAGESIZE, round_up_pow2(size)))
     ELSE ilog2(Max(PAGESIZE, round_up_pow2(align)))) - ilog2(PAGESIZE)

\* A step that follows a call r: a call that did not end normally ends the
\* caller the same way, with the pointer or value `ret` the caller gives up on.
Failed(r, ret) == Res(r.a, ret, r.st)

\* lines 229-232: for down_order in ((order_start + 1)..=order).rev()
RECURSIVE split_down(_, _, _, _, _)
RECURSIVE split_down_pushed(_, _, _, _, _)
split_down(a, dbg, down_order, target, index) ==
    IF down_order < target + 1 THEN Res(a, None, OK)
    ELSE split_down_pushed(
             push_block(a, dbg, down_order - 1, split(down_order, index)[2]),
             dbg, down_order, target, index)

split_down_pushed(r, dbg, down_order, target, index) ==
    IF r.st # OK THEN r
    ELSE split_down(r.a, dbg, down_order - 1, target, index)

\* lines 234-236: record the order and hand out the block
take_block(s, index, target) ==
    IF s.st # OK THEN Failed(s, NULL)
    ELSE Res([s.a EXCEPT !.blocks[index].order = target], index_to_ptr(index), OK)

\* lines 227-238: for order in (order_start + 1)..NUM_ORDERS
RECURSIVE scan_orders(_, _, _, _)
RECURSIVE scan_orders_popped(_, _, _, _)
scan_orders(a, dbg, order, target) ==
    IF order >= NUM_ORDERS THEN Res(a, NULL, OK)
    ELSE scan_orders_popped(pop_head(a, order), dbg, order, target)

scan_orders_popped(p, dbg, order, target) ==
    IF p.st # OK THEN Failed(p, NULL)
    ELSE IF p.ret # None
         THEN take_block(split_down(p.a, dbg, order, target, p.ret), p.ret, target)
         ELSE scan_orders(p.a, dbg, order + 1, target)

\* buddy_alloc_popped with the scan of the larger orders started at order 0
\* instead of order_start + 1
buddy_alloc_popped_scan_from_zero(p, dbg, target) ==
    IF p.st # OK THEN Failed(p, NULL)
    ELSE IF p.ret # None THEN Res(p.a, index_to_ptr(p.ret), OK)
    ELSE scan_orders(p.a, dbg, 0, target)

\* lines 223-238: after pop_head(order_start)
buddy_alloc_popped(p, dbg, target) ==
    IF p.st # OK THEN Failed(p, NULL)
    ELSE IF p.ret # None THEN Res(p.a, index_to_ptr(p.ret), OK)
    ELSE scan_orders(p.a, dbg, target + 1, target)

\* lines 209-240: the buddy path of alloc
buddy_alloc(a, dbg, size, align) ==
    buddy_alloc_popped(pop_head(a, order_start(size, align)), dbg,
                       order_start(size, align))

\* lines 256-262: while let Some(buddy_index) = get_buddy_index(order, block_addr)
RECURSIVE coalesce(_, _, _, _)
RECURSIVE coalesce_removed(_, _, _, _)
coalesce(a, dbg, order, block_addr) ==
    IF get_buddy_index(order, block_addr) = None THEN Res(a, order, OK)
    ELSE IF ~a.blocks[get_buddy_index(order, block_addr)].free THEN Res(a, order, OK)
    ELSE coalesce_removed(
             remove_block(a, dbg, order, get_buddy_index(order, block_addr)),
             dbg, order, block_addr)

coalesce_removed(r, dbg, order, block_addr) ==
    IF r.st # OK THEN Failed(r, order)
    ELSE coalesce(r.a, dbg, order + 1, block_addr)

\* line 264: push the block at the order the loop ended with
push_coalesced(c, dbg, block_index) ==
    IF c.st # OK THEN Failed(c, None)
    ELSE push_block(c.a, dbg, c.ret, block_index)

\* lines 251-264: the buddy path of dealloc
buddy_dealloc(a, dbg, ptr) ==
    IF get_block_index(ptr) \notin DOMAIN a.blocks THEN Res(a, None, PANIC)
    ELSE push_coalesced(
             coalesce(a, dbg, a.blocks[get_block_index(ptr)].order, ptr),
             dbg, get_block_index(ptr))

\* ================================================================ sleb.rs
\* u32::MAX - 1, held as the largest such value TLC's 32-bit integers allow;
\* it is only ever compared with page indices, which are below 2^30.
BUCKET_INDEX_NONE == 2147483646
SIZE_OF_SlebMetadata == 16
ENTRIES_PER_PAGE == PAGESIZE \div SIZE_OF_SlebMetadata - 1
ONE_MIB == 1048576
SMALL_32_BITFIELD_SIZE_64 == (4096 \div 32) \div 64
SMALL_32_PAGES_PER_PAGE == (4096 \div 32) - 1

U64_MAX == 0 .. 63                       \* the bitmap with every bit set
trailing_ones(bits) ==
    IF bits = U64_MAX THEN 64
    ELSE CHOOSE k \in 0 .. 63 : k \notin bits /\ \A j \in 0 .. k - 1 : j \in bits

\* enum MetadataType, `as u8`
MetadataType ==
    [Empty |-> 0, Tiny32 |-> 1, Medium64 |-> 2, Medium128 |-> 3,
     Medium512 |-> 4, Medium256 |-> 5, Medium1024 |-> 6, Medium2048 |-> 7]

\* SlebMetadata::get_type
get_type(md) ==
    CASE md.sleb_type = 0 -> "Empty"
      [] md.sleb_type = 1 -> "Tiny32"
      [] md.sleb_type = 2 -> "Medium64"
      [] md.sleb_type = 3 -> "Medium128"
      [] md.sleb_type = 4 -> "Medium256"
      [] md.sleb_type = 5 -> "Medium512"
      [] md.sleb_type = 6 -> "Medium1024"
      [] OTHER -> "Medium2048"

\* BucketIndex::get
BucketIndex_get(index) == IF index = BUCKET_INDEX_NONE THEN None ELSE index

\* The state the Sleb routines work on: the metadata page at `base`, the
\* bitfield words at the start of each carved page, and the two statics.
\* init zeroes the metadata page, so every record starts Empty with links 0.
init(page) ==
    [base |-> page,
     metadata |-> [i \in 0 .. ENTRIES_PER_PAGE - 1 |->
                     [sleb_type |-> 0, next_index |-> 0, prev_index |-> 0,
                      extra_bits |-> {}]],
     bitfield |-> [i \in 0 .. ENTRIES_PER_PAGE - 1 |->
                     [w \in 0 .. SMALL_32_BITFIELD_SIZE_64 - 1 |-> {}]]]

within_bounds(z, ptr) ==
    LET self_addr == z.base
        ptr_addr == ptr
    IN  self_addr < ptr_addr /\ ptr_addr < self_addr + ONE_MIB

index_to_mut_ptr(z, index) == z.base + PAGESIZE * (index + 1)

find_empty_page(z, md_type) ==
    LET empties == {i \in DOMAIN z.metadata : get_type(z.metadata[i]) = "Empty"} IN
    IF empties = {} THEN Res(z, None, OK)
    ELSE LET i == CHOOSE e \in empties : \A f \in empties : e <= f IN
         Res([z EXCEPT !.metadata[i].sleb_type = MetadataType[md_type]], i, OK)

\* TinyMetadataPage::find_free_slot on the page of metadata index pg
RECURSIVE find_free_slot_from(_, _, _)
find_free_slot_from(z, pg, i) ==
    IF i >= SMALL_32_BITFIELD_SIZE_64 THEN Res(z, NULL, OK)
    ELSE LET bits == z.bitfield[pg][i] IN
         IF bits # U64_MAX
         THEN LET trailing == trailing_ones(bits)
                  slot == i * 64 + trailing
                  z1 == [z EXCEPT !.bitfield[pg][i] = bits \cup {trailing}]
              IN  IF slot >= SMALL_32_PAGES_PER_PAGE
                  THEN Res(z1, NULL, PANIC)
                  ELSE Res(z1, index_to_mut_ptr(z, pg)
                                 + 8 * SMALL_32_BITFIELD_SIZE_64 + 32 * slot, OK)
         ELSE find_free_slot_from(z, pg, i + 1)

find_free_slot(z, pg) == find_free_slot_from(z, pg, 0)

\* MetadataPage::take_slot on the page of metadata index pg
take_slot(z, pg, slot, size) ==
    LET index == slot * size IN
    IF index >= 4096 THEN Res(z, NULL, PANIC)
    ELSE Res(z, index_to_mut_ptr(z, pg) + index, OK)

\* lines 105-115: while let Some(i) = buckets[0].get().  `seen` holds the
\* pages the walk has already found full: meeting one again, the loop
\* repeats for ever.
RECURSIVE alloc_tiny_walk(_, _)
RECURSIVE alloc_tiny_probed(_, _, _)
alloc_tiny_walk(z, seen) ==
    IF BucketIndex_get(z.TINY_BUCKETS[0]) = None THEN Res(z, None, OK)
    ELSE IF z.TINY_BUCKETS[0] \notin DOMAIN z.metadata THEN Res(z, NULL, PANIC)
    ELSE IF z.TINY_BUCKETS[0] \in seen THEN Res(z, NULL, HANG)
    ELSE alloc_tiny_probed(find_free_slot(z, z.TINY_BUCKETS[0]),
                           z.TINY_BUCKETS[0], seen)

alloc_tiny_probed(r, i, seen) ==
    IF r.st # OK \/ r.ret # NULL THEN r
    ELSE alloc_tiny_walk(
             [r.a EXCEPT !.TINY_BUCKETS[0] = r.a.metadata[i].next_index],
             seen \cup {i})

\* lines 118-128: the page find_empty_page found, if any
alloc_tiny_promoted(e) ==
    IF e.ret = None THEN Res(e.a, NULL, OK)
    ELSE find_free_slot(
             [e.a EXCEPT !.bitfield[e.ret] =
                 [w0 \in 0 .. SMALL_32_BITFIELD_SIZE_64 - 1 |-> {}]],
             e.ret)

\* lines 117-129: after the walk of the bucket
alloc_tiny_walked(w) ==
    IF w.st # OK \/ w.ret # None THEN w
    ELSE alloc_tiny_promoted(find_empty_page(w.a, "Tiny32"))

alloc_tiny(z) == alloc_tiny_walked(alloc_tiny_walk(z, {}))

\* lines 134-146: while let Some(i) = buckets[index].get()
RECURSIVE alloc_medium_walk(_, _, _)
alloc_medium_walk(z, index, seen) ==
    LET i == BucketIndex_get(z.MEDIUM_BUCKETS[index]) IN
    IF i = None THEN Res(z, None, OK)
    ELSE IF i \notin DOMAIN z.metadata THEN Res(z, NULL, PANIC)
    ELSE IF i \in seen THEN Res(z, NULL, HANG)
    ELSE LET slot == trailing_ones(z.metadata[i].extra_bits) IN
         IF slot < 64
         THEN take_slot([z EXCEPT !.metadata[i].extra_bits = @ \cup {slot}],
                        i, slot, 2 ^ (index + 6))
         ELSE alloc_medium_walk(
                  [z EXCEPT !.MEDIUM_BUCKETS[index] = z.metadata[i].next_index],
                  index, seen \cup {i})

\* lines 150-158: the type tag and the first bitmap of a promoted page
medium_class(index) ==
    CASE index = 0 -> <<"Medium64", {0}>>
      [] index = 1 -> <<"Medium128", {0} \cup (32 .. 63)>>
      [] index = 2 -> <<"Medium256", {0} \cup (16 .. 63)>>
      [] index = 3 -> <<"Medium512", {0} \cup (8 .. 63)>>
      [] index = 4 -> <<"Medium1024", {0} \cup (4 .. 63)>>
      [] index = 5 -> <<"Medium2048", {0} \cup (2 .. 63)>>

\* lines 160-167: the page find_empty_page found, if any
alloc_medium_promoted(e, index) ==
    IF e.ret = None THEN Res(e.a, NULL, OK)
    ELSE take_slot([e.a EXCEPT !.metadata[e.ret].extra_bits = medium_class(index)[2]],
                   e.ret, 0, 2 ^ (index + 6))

\* lines 148-167: after the walk of the bucket
alloc_medium_walked(w, index) ==
    IF w.st # OK \/ w.ret # None THEN w
    ELSE alloc_medium_promoted(find_empty_page(w.a, medium_class(index)[1]), index)

alloc_medium(z, index) ==
    IF index \notin DOMAIN z.MEDIUM_BUCKETS THEN Res(z, NULL, PANIC)
    ELSE alloc_medium_walked(alloc_medium_walk(z, index, {}), index)

\* SlebMetadataPage::alloc
sleb_alloc(z, size) ==
    CASE size \in 0 .. 32 -> alloc_tiny(z)
      [] size \in 33 .. 64 -> alloc_medium(z, 0)
      [] size \in 65 .. 128 -> alloc_medium(z, 1)
      [] size \in 129 .. 256 -> alloc_medium(z, 2)
      [] size \in 257 .. 512 -> alloc_medium(z, 3)
      [] size \in 513 .. 1024 -> alloc_medium(z, 4)
      [] size \in 1025 .. 2048 -> alloc_medium(z, 5)
      [] OTHER -> Res(z, NULL, PANIC)

\* lines 199-207 and 226-234: a page that was full goes to the bucket's head
bucket_push(z, which, bucket_index, md_index) ==
    IF bucket_index \notin DOMAIN z[which] THEN Res(z, None, PANIC)
    ELSE LET i == BucketIndex_get(z[which][bucket_index]) IN
         IF i = None
         THEN Res([z EXCEPT ![which][bucket_index] = md_index], None, OK)
         ELSE IF i \notin DOMAIN z.metadata THEN Res(z, None, PANIC)
         ELSE Res([z EXCEPT !.metadata[i].prev_index = md_index,
                            ![which][bucket_index] = md_index,
                            !.metadata[md_index].next_index = i],
                  None, OK)

\* free_tiny that hands a page back once its last slot is free
free_tiny_resets(z, dbg, md_index, ptr) ==
    LET ptr_addr == ptr
        ptr_offset == ptr_addr % PAGESIZE
        slot == ptr_offset \div 32
        z1 == [z EXCEPT !.bitfield[md_index][slot \div 64] = @ \ {slot % 64}]
    IN  IF \A w \in DOMAIN z1.bitfield[md_index] : z1.bitfield[md_index][w] = {}
        THEN Res([z1 EXCEPT !.metadata[md_index].sleb_type = MetadataType["Empty"]],
                 None, OK)
        ELSE Res(z1, None, OK)

free_tiny(z, dbg, md_index, ptr) ==
    LET ptr_addr == ptr
        ptr_offset == ptr_addr % PAGESIZE
        slot == ptr_offset \div 32
        was_full == \A w \in DOMAIN z.bitfield[md_index] :
                        z.bitfield[md_index][w] = U64_MAX
    IN  IF dbg /\ (slot % 64) \notin z.bitfield[md_index][slot \div 64]
        THEN Res(z, None, PANIC)
        ELSE LET z1 == [z EXCEPT !.bitfield[md_index][slot \div 64] = @ \ {slot % 64}]
             IN  IF was_full THEN bucket_push(z1, "TINY_BUCKETS", 0, md_index)
                 ELSE Res(z1, None, OK)

free_medium(z, dbg, md_index, bucket_index, ptr) ==
    LET ptr_addr == ptr
        ptr_offset == ptr_addr % PAGESIZE
        slot == ptr_offset \div 32
        was_full == z.metadata[md_index].extra_bits = U64_MAX
    IN  \* debug build: 1u64 << slot overflows for slot >= 64, and the
        \* debug_assert wants the bit set; release build: the shift wraps
        IF dbg /\ (slot >= 64 \/ slot \notin z.metadata[md_index].extra_bits)
        THEN Res(z, None, PANIC)
        ELSE LET z1 == [z EXCEPT !.metadata[md_index].extra_bits = @ \ {slot % 64}]
             IN  IF was_full
                 THEN bucket_push(z1, "MEDIUM_BUCKETS", bucket_index, md_index)
                 ELSE Res(z1, None, OK)

\* SlebMetadataPage::free
sleb_free(z, dbg, ptr) ==
    LET ptr_addr == ptr
        self_ptr == z.base
        distance == ptr_addr - self_ptr
        index == distance \div 4096 - 1
    IN  IF index \notin DOMAIN z.metadata THEN Res(z, None, PANIC)
        ELSE LET t == get_type(z.metadata[index]) IN
             CASE t = "Tiny32" -> free_tiny(z, dbg, index, ptr)
               [] t = "Medium64" -> free_medium(z, dbg, index, 0, ptr)
               [] t = "Medium128" -> free_medium(z, dbg, index, 1, ptr)
               [] t = "Medium256" -> free_medium(z, dbg, index, 2, ptr)
               [] t = "Medium512" -> free_medium(z, dbg, index, 3, ptr)
               [] t = "Medium1024" -> free_medium(z, dbg, index, 4, ptr)
               [] t = "Medium2048" -> free_medium(z, dbg, index, 5, ptr)
               [] OTHER -> Res(z, None, PANIC)

\* ============================================================ the program
VARIABLES
    ALLOCATOR,          \* static ALLOCATOR: the BuddyAllocator behind its lock
    SLEB_ALLOCATOR,     \* lazy_static SLEB_ALLOCATOR: built on first use
    TINY_BUCKETS,       \* static TINY_BUCKETS
    MEDIUM_BUCKETS,     \* static MEDIUM_BUCKETS
    debug_assertions,   \* the build: debug_assert! and overflow checks on or off
    status,             \* "ok" while the kernel runs; a panic or a hang ends it
    hist,               \* the calls made so far, with what each returned
    live,               \* the allocations returned and not yet deallocated
    context,            \* each execution context: where it is in its call
    locks,              \* who holds each spin lock, and who runs the Once
    buffer,             \* a CircularBuffer<N, T>
    calls,              \* the calls made on buffer, with what each returned
    applied             \* a helper function applied on its own: arguments and result

vars == <<ALLOCATOR, SLEB_ALLOCATOR, TINY_BUCKETS, MEDIUM_BUCKETS,
          debug_assertions, status, hist, live, context, locks, buffer, calls, applied>>

\* The Sleb routines' view: the metadata page and the two bucket statics.
Z(sleb, tiny, medium) ==
    [base |-> sleb.base, metadata |-> sleb.metadata, bitfield |-> sleb.bitfield,
     TINY_BUCKETS |-> tiny, MEDIUM_BUCKETS |-> medium]

Machine(a, sleb, tiny, medium) ==
    [ALLOCATOR |-> a, SLEB_ALLOCATOR |-> sleb,
     TINY_BUCKETS |-> tiny, MEDIUM_BUCKETS |-> medium]

WithZ(m, z) ==
    [m EXCEPT !.SLEB_ALLOCATOR.metadata = z.metadata,
              !.SLEB_ALLOCATOR.bitfield = z.bitfield,
              !.TINY_BUCKETS = z.TINY_BUCKETS,
              !.MEDIUM_BUCKETS = z.MEDIUM_BUCKETS]

\* lines 37-40: the initialiser, given what ALLOCATOR.alloc returned: Sleb's
\* metadata page is the zeroed first page of the region; a null pointer faults
SLEB_ALLOCATOR_init(m, r) ==
    IF r.st # OK THEN Res([m EXCEPT !.ALLOCATOR = r.a], None, r.st)
    ELSE IF r.ret = NULL THEN Res([m EXCEPT !.ALLOCATOR = r.a], None, PANIC)
    ELSE Res([m EXCEPT !.ALLOCATOR = r.a,
                       !.SLEB_ALLOCATOR = [initialized |-> TRUE] @@ init(r.ret)],
             None, OK)

\* lines 34-43: the first SLEB_ALLOCATOR.lock() runs the initialiser, which
\* takes 1 MiB from ALLOCATOR.alloc (a size above 2048: the buddy path)
SLEB_ALLOCATOR_lock(m, dbg) ==
    IF m.SLEB_ALLOCATOR.initialized THEN Res(m, None, OK)
    ELSE SLEB_ALLOCATOR_init(m, buddy_alloc(m.ALLOCATOR, dbg, 1048576, 1))

\* route with the boundary test written `<` instead of `<=`
route_strict(size, align) == IF Max(size, align) < 2048 THEN "sleb" ELSE "buddy"

\* line 203: which allocator the dispatcher hands the request to
route(size, align) == IF Max(size, align) <= 2048 THEN "sleb" ELSE "buddy"

\* the machine after a Sleb routine has run on it
sleb_done(m, r, ret) == Res(WithZ(m, r.a), ret, r.st)
sleb_ret(m, r) == Res(WithZ(m, r.a), r.ret, r.st)
\* the machine after a buddy routine has run on it
buddy_done(m, r, ret) == Res([m EXCEPT !.ALLOCATOR = r.a], ret, r.st)
buddy_ret(m, r) == Res([m EXCEPT !.ALLOCATOR = r.a], r.ret, r.st)

\* lines 204-206: with the Sleb lock held
alloc_sleb_locked(l, size) ==
    IF l.st # OK THEN Failed(l, NULL)
    ELSE sleb_ret(l.a, sleb_alloc(Z(l.a.SLEB_ALLOCATOR, l.a.TINY_BUCKETS,
                                          l.a.MEDIUM_BUCKETS), size))

\* GlobalAlloc::alloc
alloc(m, dbg, layout_size, layout_align) ==
    IF route(layout_size, layout_align) = "sleb"
    THEN alloc_sleb_locked(SLEB_ALLOCATOR_lock(m, dbg),
                           Max(layout_size, layout_align))
    ELSE buddy_ret(m, buddy_alloc(m.ALLOCATOR, dbg, layout_size, layout_align))

\* lines 245-249: which allocator dealloc hands the pointer to
dealloc_route(sleb, ptr) == IF within_bounds(sleb, ptr) THEN "sleb" ELSE "buddy"

\* lines 246-264: with the Sleb lock held
dealloc_locked(l, dbg, ptr) ==
    IF l.st # OK THEN Failed(l, None)
    ELSE IF dealloc_route(l.a.SLEB_ALLOCATOR, ptr) = "sleb"
         THEN sleb_done(l.a, sleb_free(Z(l.a.SLEB_ALLOCATOR, l.a.TINY_BUCKETS,
                                         l.a.MEDIUM_BUCKETS), dbg, ptr), None)
         ELSE buddy_done(l.a, buddy_dealloc(l.a.ALLOCATOR, dbg, ptr), None)

\* GlobalAlloc::dealloc
dealloc(m, dbg, ptr) == dealloc_locked(SLEB_ALLOCATOR_lock(m, dbg), dbg, ptr)

\* ------------------------------------------------------------------ inputs
MIB == 1024 * KB
\* <<size, align>> of the layouts the callers of Spec ask for
Requests ==
    {<<32, 1>>, <<100, 8>>, <<4096, 1>>, <<32768, 1>>, <<2 * MIB, 1>>,
     <<8 * MIB, 1>>}
\* the layouts of SpecSizes: both sides of every class and of the dispatcher's
\* boundary
RequestsSizes ==
    {<<sz, 1>> : sz \in {1, 32, 33, 64, 65, 100, 128, 129, 256, 257, 512, 513,
                         1024, 1025, 2048, 2049, 4096, 4097}}
    \cup {<<16, 2048>>, <<2048, 2048>>, <<64, 4096>>, <<4096, 8192>>}
    \cup {<<16, 32>>, <<8, 64>>}
    \cup {<<BLOCK_SIZE * 2 ^ k, 1>> : k \in 0 .. ilog2(NUM_BLOCKS)}
\* the layouts of SpecFull: two classes Sleb serves and the one it does not
RequestsFull == {<<32, 1>>, <<100, 8>>, <<2048, 1>>}

\* ------------------------------------------------- execution contexts
Ctx == 1 .. NumCtx
\* a context that is in no call of the allocator
Idle == [pc |-> "idle", op |-> "none", size |-> 0, align |-> 0, ptr |-> NULL,
         by |-> "none"]
\* no lock held (0 is no context), the Once not being run
Unlocked == [once |-> 0, SLEB_ALLOCATOR |-> 0, ALLOCATOR |-> 0,
             TINY_BUCKETS |-> 0, MEDIUM_BUCKETS |-> 0]

\* --------------------------------- klib/containers/circular_buffer.rs
Uninit == 0                      \* MaybeUninit::uninit()
Items == 1 .. MaxItem

CircularBuffer_new(N) ==
    [N |-> N, size |-> 0, start |-> 0, items |-> [i \in 0 .. N - 1 |-> Uninit]]

NotApplied == <<>>

InitHeap ==
    /\ ALLOCATOR = new
    /\ SLEB_ALLOCATOR = [initialized |-> FALSE] @@ init(NULL)
    /\ TINY_BUCKETS = [i \in 0 .. 0 |-> BUCKET_INDEX_NONE]
    /\ MEDIUM_BUCKETS = [i \in 0 .. 4 |-> BUCKET_INDEX_NONE]
    /\ debug_assertions \in BOOLEAN
    /\ status = OK
    /\ hist = <<>>
    /\ live = <<>>
    /\ context = [c \in Ctx |-> Idle]
    /\ locks = Unlocked
    /\ calls = <<>>
    /\ applied = NotApplied

Init == InitHeap /\ buffer = CircularBuffer_new(MaxN)

\* One call as the caller saw it: the layout, the pointer returned (alloc) or
\* passed (dealloc), the allocator it was routed to, the buddy order asked
\* for, the allocator that had produced the pointer, and how the call ended.
Call(op, size, align, ptr, rt, order, by, st) ==
    [op |-> op, size |-> size, align |-> align, ptr |-> ptr,
     route |-> rt, order |-> order, by |-> by, st |-> st]

Set(m, st) ==
    /\ ALLOCATOR' = m.ALLOCATOR
    /\ SLEB_ALLOCATOR' = m.SLEB_ALLOCATOR
    /\ TINY_BUCKETS' = m.TINY_BUCKETS
    /\ MEDIUM_BUCKETS' = m.MEDIUM_BUCKETS
    /\ status' = st
    /\ UNCHANGED debug_assertions

Cur == Machine(ALLOCATOR, SLEB_ALLOCATOR, TINY_BUCKETS, MEDIUM_BUCKETS)

\* what the caller and the statics hold once alloc has returned r
Allocated(size, align, r) ==
    /\ Set(r.a, r.st)
    /\ hist' = Append(hist, Call("alloc", size, align, r.ret, route(size, align),
                                 IF route(size, align) = "buddy"
                                 THEN order_start(size, align) ELSE None,
                                 route(size, align), r.st))
    /\ live' = IF r.st = OK /\ r.ret # NULL
               THEN Append(live, [ptr |-> r.ret, size |-> size, align |-> align,
                                  by |-> route(size, align)])
               ELSE live

\* a caller allocates with Layout(size, align)
Allocate(size, align) ==
    /\ status = OK
    /\ Allocated(size, align, alloc(Cur, debug_assertions, size, align))
    /\ UNCHANGED <<context, locks, buffer, calls, applied>>

Remove(seq, k) == SubSeq(seq, 1, k - 1) \o SubSeq(seq, k + 1, Len(seq))

\* what the caller and the statics hold once dealloc has returned r
Deallocated(k, r) ==
    /\ Set(r.a, r.st)
    /\ hist' = Append(hist, Call("dealloc", live[k].size, live[k].align, live[k].ptr,
                                 IF r.a.SLEB_ALLOCATOR.initialized
                                 THEN dealloc_route(r.a.SLEB_ALLOCATOR, live[k].ptr)
                                 ELSE "none",
                                 None, live[k].by, r.st))
    /\ live' = Remove(live, k)

\* a caller deallocates its k-th live allocation with the layout it asked for
Deallocate(k) ==
    /\ status = OK
    /\ k \in 1 .. Len(live)
    /\ Deallocated(k, dealloc(Cur, debug_assertions, live[k].ptr))
    /\ UNCHANGED <<context, locks, buffer, calls, applied>>

Next ==
    \/ \E req \in Requests : Len(hist) < MaxOps /\ Allocate(req[1], req[2])
    \/ \E k \in 1 .. Len(live) : Len(hist) < MaxOps /\ Deallocate(k)

Spec == Init /\ [][Next]_vars

NextSizes ==
    \/ \E req \in RequestsSizes : Len(hist) < MaxOpsSizes /\ Allocate(req[1], req[2])
    \/ \E k \in 1 .. Len(live) : Len(hist) < MaxOpsSizes /\ Deallocate(k)

SpecSizes == Init /\ [][NextSizes]_vars

\* A caller that first takes a 32-byte allocation for every entry of Sleb's
\* metadata page, and then allocates, or frees one of its two latest
\* allocations.
Filling == Len(hist) < ENTRIES_PER_PAGE
Full == /\ Len(hist) >= ENTRIES_PER_PAGE
        /\ Len(hist) < ENTRIES_PER_PAGE + MaxOpsFull

NextFull ==
    \/ Filling /\ Allocate(32, 1)
    \/ \E req \in RequestsFull : Full /\ Allocate(req[1], req[2])
    \/ \E k \in Len(live) - 1 .. Len(live) : Full /\ Deallocate(k)

SpecFull == Init /\ [][NextFull]_vars

\* ------------------------------------------- calls from several contexts
\* Each context runs one call at a time, a step at a time: every lock() is a
\* step that waits until the spin lock is free, and what is done under a lock
\* is one step.  TINY_BUCKETS and MEDIUM_BUCKETS are locked inside the Sleb
\* routines, by the holder of the SLEB_ALLOCATOR lock: alloc_tiny and
\* alloc_medium start with it, free_tiny and free_medium take it when the
\* page was full.  A panic stops the kernel with the locks as they are.

\* <<size, align>> of the layouts the callers of SpecCtx ask for
RequestsCtx == {<<32, 1>>, <<4096, 1>>, <<32768, 1>>}

\* line 249 with the guard `sleb` kept alive until dealloc returns
sleb_guard_kept(lk) == lk

\* line 249: the end of the block drops the guard `sleb`
sleb_guard_dropped(lk) == [lk EXCEPT !.SLEB_ALLOCATOR = 0]

\* once_state that forgets that the initialiser has completed
once_state_forgetful(sleb, lk) ==
    IF lk.once # 0 THEN "running" ELSE "incomplete"

\* lines 34-43: the spin::Once behind the lazy static
once_state(sleb, lk) ==
    IF sleb.initialized THEN "complete"
    ELSE IF lk.once # 0 THEN "running" ELSE "incomplete"

InCall(c) == context[c].pc # "idle"
Begun == Len(hist) + Cardinality({c \in Ctx : InCall(c)})
At(c, pc) == status = OK /\ context[c].pc = pc
Goto(c, pc) == context' = [context EXCEPT ![c].pc = pc]
Return(c) == context' = [context EXCEPT ![c] = Idle]

\* line 201: the context calls alloc(layout)
CallAlloc(c, size, align) ==
    /\ At(c, "idle")
    /\ context' = [context EXCEPT ![c] =
          [pc |-> IF route(size, align) = "sleb" THEN "sleb_deref" ELSE "buddy_lock",
           op |-> "alloc", size |-> size, align |-> align, ptr |-> NULL,
           by |-> route(size, align)]]
    /\ UNCHANGED <<ALLOCATOR, SLEB_ALLOCATOR, TINY_BUCKETS, MEDIUM_BUCKETS,
                   debug_assertions, status, hist, live, locks, buffer, calls, applied>>

\* line 243: the context calls dealloc on its k-th live allocation
CallDealloc(c, k) ==
    /\ At(c, "idle")
    /\ k \in 1 .. Len(live)
    /\ context' = [context EXCEPT ![c] =
          [pc |-> "sleb_deref", op |-> "dealloc", size |-> live[k].size,
           align |-> live[k].align, ptr |-> live[k].ptr, by |-> live[k].by]]
    /\ live' = Remove(live, k)
    /\ UNCHANGED <<ALLOCATOR, SLEB_ALLOCATOR, TINY_BUCKETS, MEDIUM_BUCKETS,
                   debug_assertions, status, hist, locks, buffer, calls, applied>>

\* lines 204, 245: SLEB_ALLOCATOR is dereferenced: the first context to come
\* runs the initialiser, the others spin until it has completed
Deref(c) ==
    /\ At(c, "sleb_deref")
    /\ once_state(SLEB_ALLOCATOR, locks) # "running"
    /\ IF once_state(SLEB_ALLOCATOR, locks) = "complete"
       THEN Goto(c, "sleb_lock") /\ UNCHANGED locks
       ELSE Goto(c, "init_lock") /\ locks' = [locks EXCEPT !.once = c]
    /\ UNCHANGED <<ALLOCATOR, SLEB_ALLOCATOR, TINY_BUCKETS, MEDIUM_BUCKETS,
                   debug_assertions, status, hist, live, buffer, calls, applied>>

\* lines 37, 221: the initialiser's ALLOCATOR.alloc takes the buddy lock
InitLock(c) ==
    /\ At(c, "init_lock")
    /\ locks.ALLOCATOR = 0
    /\ locks' = [locks EXCEPT !.ALLOCATOR = c]
    /\ Goto(c, "init_alloc")
    /\ UNCHANGED <<ALLOCATOR, SLEB_ALLOCATOR, TINY_BUCKETS, MEDIUM_BUCKETS,
                   debug_assertions, status, hist, live, buffer, calls, applied>>

Reserved(c, r) ==
    /\ Set(r.a, r.st)
    /\ locks' = IF r.st = OK THEN [locks EXCEPT !.ALLOCATOR = 0, !.once = 0]
                ELSE locks
    /\ Goto(c, "sleb_lock")
    /\ UNCHANGED <<hist, live, buffer, calls, applied>>

\* lines 37-40: the region is taken from the buddy allocator, its first page
\* zeroed, and the Once completes
InitAlloc(c) ==
    /\ At(c, "init_alloc")
    /\ Reserved(c, SLEB_ALLOCATOR_init(
                       Cur, buddy_alloc(ALLOCATOR, debug_assertions, 1048576, 1)))

\* lines 204, 245: SLEB_ALLOCATOR.lock()
SlebLock(c) ==
    /\ At(c, "sleb_lock")
    /\ locks.SLEB_ALLOCATOR = 0
    /\ locks' = [locks EXCEPT !.SLEB_ALLOCATOR = c]
    /\ Goto(c, "sleb_body")
    /\ UNCHANGED <<ALLOCATOR, SLEB_ALLOCATOR, TINY_BUCKETS, MEDIUM_BUCKETS,
                   debug_assertions, status, hist, live, buffer, calls, applied>>

Unlocked_after(r, l) == IF r.st = OK THEN [locks EXCEPT ![l] = 0] ELSE locks

\* sleb.rs lines 238-254 with 192-199, 218-226: the bucket static Sleb.free
\* locks, which it does only for a page that was full
free_bucket(sleb, ptr) ==
    LET index == (ptr - sleb.base) \div 4096 - 1 IN
    IF index \notin DOMAIN sleb.metadata THEN "none"
    ELSE IF get_type(sleb.metadata[index]) = "Empty" THEN "none"
    ELSE IF get_type(sleb.metadata[index]) = "Tiny32"
    THEN IF \A w \in DOMAIN sleb.bitfield[index] : sleb.bitfield[index][w] = U64_MAX
         THEN "TINY_BUCKETS" ELSE "none"
    ELSE IF sleb.metadata[index].extra_bits = U64_MAX
         THEN "MEDIUM_BUCKETS" ELSE "none"

\* the bucket static the context's call locks under the Sleb lock: Sleb.alloc
\* that of alloc_tiny or alloc_medium (sleb.rs lines 170-181 with 104, 133)
bucket_taken(c) ==
    IF context[c].op = "alloc"
    THEN IF Max(context[c].size, context[c].align) <= 32
         THEN "TINY_BUCKETS" ELSE "MEDIUM_BUCKETS"
    ELSE IF dealloc_route(SLEB_ALLOCATOR, context[c].ptr) = "sleb"
    THEN free_bucket(SLEB_ALLOCATOR, context[c].ptr)
    ELSE "none"

\* the Sleb guard and the bucket guard are dropped when the routine returns
Unlocked_sleb(r) ==
    IF r.st = OK
    THEN [locks EXCEPT !.SLEB_ALLOCATOR = 0, !.TINY_BUCKETS = 0, !.MEDIUM_BUCKETS = 0]
    ELSE locks

\* sleb.rs lines 104, 133, 199, 226: TINY_BUCKETS.lock() / MEDIUM_BUCKETS.lock()
BucketLock(c) ==
    /\ At(c, "sleb_body")
    /\ bucket_taken(c) # "none"
    /\ locks[bucket_taken(c)] = 0
    /\ locks' = [locks EXCEPT ![bucket_taken(c)] = c]
    /\ Goto(c, "bucket_body")
    /\ UNCHANGED <<ALLOCATOR, SLEB_ALLOCATOR, TINY_BUCKETS, MEDIUM_BUCKETS,
                   debug_assertions, status, hist, live, buffer, calls, applied>>

\* what the statics and the caller hold once the context's dealloc has
\* returned r
DeallocReturned(c, r) ==
    /\ Set(r.a, r.st)
    /\ hist' = Append(hist, Call("dealloc", context[c].size, context[c].align,
                                 context[c].ptr,
                                 dealloc_route(r.a.SLEB_ALLOCATOR, context[c].ptr),
                                 None, context[c].by, r.st))
    /\ UNCHANGED live

\* lines 205-206: sleb_alloc.alloc(size), and the guard is dropped
SlebAllocBody(c) ==
    /\ At(c, "bucket_body") /\ context[c].op = "alloc"
    /\ Allocated(context[c].size, context[c].align,
                 alloc_sleb_locked(Res(Cur, None, OK),
                                   Max(context[c].size, context[c].align)))
    /\ locks' = Unlocked_sleb(
                    alloc_sleb_locked(Res(Cur, None, OK),
                                      Max(context[c].size, context[c].align)))
    /\ Return(c)
    /\ UNCHANGED <<buffer, calls, applied>>

\* lines 246-247: the pointer is within Sleb's bounds: sleb.free(ptr)
SlebFreeBody(c) ==
    /\ \/ At(c, "sleb_body") /\ bucket_taken(c) = "none"
       \/ At(c, "bucket_body")
    /\ context[c].op = "dealloc"
    /\ dealloc_route(SLEB_ALLOCATOR, context[c].ptr) = "sleb"
    /\ DeallocReturned(c, dealloc_locked(Res(Cur, None, OK), debug_assertions,
                                         context[c].ptr))
    /\ locks' = Unlocked_sleb(
                    dealloc_locked(Res(Cur, None, OK), debug_assertions,
                                   context[c].ptr))
    /\ Return(c)
    /\ UNCHANGED <<buffer, calls, applied>>

\* lines 246-249: the pointer is not within Sleb's bounds
SlebMiss(c) ==
    /\ At(c, "sleb_body") /\ context[c].op = "dealloc"
    /\ dealloc_route(SLEB_ALLOCATOR, context[c].ptr) = "buddy"
    /\ locks' = sleb_guard_dropped(locks)
    /\ Goto(c, "buddy_lock")
    /\ UNCHANGED <<ALLOCATOR, SLEB_ALLOCATOR, TINY_BUCKETS, MEDIUM_BUCKETS,
                   debug_assertions, status, hist, live, buffer, calls, applied>>

\* lines 221, 253: self.lock()
BuddyLock(c) ==
    /\ At(c, "buddy_lock")
    /\ locks.ALLOCATOR = 0
    /\ locks' = [locks EXCEPT !.ALLOCATOR = c]
    /\ Goto(c, "buddy_body")
    /\ UNCHANGED <<ALLOCATOR, SLEB_ALLOCATOR, TINY_BUCKETS, MEDIUM_BUCKETS,
                   debug_assertions, status, hist, live, buffer, calls, applied>>

\* lines 223-240: the buddy path of alloc, and the guard is dropped
BuddyAllocBody(c) ==
    /\ At(c, "buddy_body") /\ context[c].op = "alloc"
    /\ Allocated(context[c].size, context[c].align,
                 buddy_ret(Cur, buddy_alloc(ALLOCATOR, debug_assertions,
                                            context[c].size, context[c].align)))
    /\ locks' = Unlocked_after(
                    buddy_alloc(ALLOCATOR, debug_assertions,
                                context[c].size, context[c].align),
                    "ALLOCATOR")
    /\ Return(c)
    /\ UNCHANGED <<buffer, calls, applied>>

\* lines 254-264: the buddy path of dealloc, and the guard is dropped
BuddyDeallocBody(c) ==
    /\ At(c, "buddy_body") /\ context[c].op = "dealloc"
    /\ DeallocReturned(c, buddy_done(Cur, buddy_dealloc(ALLOCATOR, debug_assertions,
                                                        context[c].ptr), None))
    /\ locks' = Unlocked_after(
                    buddy_dealloc(ALLOCATOR, debug_assertions, context[c].ptr),
                    "ALLOCATOR")
    /\ Return(c)
    /\ UNCHANGED <<buffer, calls, applied>>

NextCtx ==
    \/ \E c \in Ctx, req \in RequestsCtx :
          Begun < MaxOpsCtx /\ CallAlloc(c, req[1], req[2])
    \/ \E c \in Ctx, k \in 1 .. Len(live) : Begun < MaxOpsCtx /\ CallDealloc(c, k)
    \/ \E c \in Ctx : Deref(c)
    \/ \E c \in Ctx : InitLock(c)
    \/ \E c \in Ctx : InitAlloc(c)
    \/ \E c \in Ctx : SlebLock(c)
    \/ \E c \in Ctx : BucketLock(c)
    \/ \E c \in Ctx : SlebAllocBody(c)
    \/ \E c \in Ctx : SlebFreeBody(c)
    \/ \E c \in Ctx : SlebMiss(c)
    \/ \E c \in Ctx : BuddyLock(c)
    \/ \E c \in Ctx : BuddyAllocBody(c)
    \/ \E c \in Ctx : BuddyDeallocBody(c)

SpecCtx == Init /\ [][NextCtx]_vars

\* ------------------------------------------------------- CircularBuffer
\* u32::MAX % n, computed within 32-bit integers: 2^32 = 65536 * 65536
u32_MAX_mod(n) == ((65536 % n) * (65536 % n) + n - 1) % n

mod_add(N, x, y) == (x + y) % N

\* the index back_maybe_uninit and back_maybe_uninit_mut compute,
\* mod_add(start, size - 1), or None where the build panics.  With size = 0
\* the u32 subtraction overflows: a panic when overflow checks are on;
\* otherwise size - 1 wraps to u32::MAX and start + u32::MAX wraps to
\* start - 1 (to u32::MAX for start = 0).
back_maybe_uninit(b, dbg) ==
    IF b.size >= 1 THEN mod_add(b.N, b.start, b.size - 1)
    ELSE IF dbg THEN None
    ELSE IF b.start >= 1 THEN (b.start - 1) % b.N
    ELSE u32_MAX_mod(b.N)

inc_start(b) == [b EXCEPT !.start = (b.start + 1) % b.N]

dec_size(b) == [b EXCEPT !.size = b.size - 1]

empty(b) == b.size = 0

push_back(b, dbg, item) ==
    IF b.N = 0 THEN Res(b, None, OK)
    ELSE IF b.size >= b.N
         THEN Res(inc_start([b EXCEPT !.items[b.start] = item]), None, OK)
         ELSE IF back_maybe_uninit(b, dbg) = None THEN Res(b, None, PANIC)
         ELSE Res(inc_start([b EXCEPT !.items[back_maybe_uninit(b, dbg)] = item]),
                  None, OK)

\* `junk` is what assume_init_read yields on a slot never written
pop_back(b, dbg, junk) ==
    IF b.size = 0 THEN Res(b, None, OK)
    ELSE Res(dec_size(b),
             IF b.items[back_maybe_uninit(b, dbg)] = Uninit THEN junk
             ELSE b.items[back_maybe_uninit(b, dbg)],
             OK)

BufferCall(op, item, r) ==
    /\ buffer' = r.a
    /\ calls' = Append(calls, [op |-> op, item |-> item, ret |-> r.ret, st |-> r.st])
    /\ status' = r.st
    /\ UNCHANGED <<ALLOCATOR, SLEB_ALLOCATOR, TINY_BUCKETS, MEDIUM_BUCKETS,
                   debug_assertions, hist, live, context, locks, applied>>

PushBack(item) ==
    /\ status = OK
    /\ BufferCall("push_back", item, push_back(buffer, debug_assertions, item))

PopBack(junk) ==
    /\ status = OK
    /\ BufferCall("pop_back", None, pop_back(buffer, debug_assertions, junk))

InitBuffer == InitHeap /\ \E N \in 1 .. MaxN : buffer = CircularBuffer_new(N)

NextBuffer ==
    \/ \E item \in Items : Len(calls) < MaxCalls /\ PushBack(item)
    \/ \E junk \in Items : Len(calls) < MaxCalls /\ PopBack(junk)

SpecBuffer == InitBuffer /\ [][NextBuffer]_vars

\* ------------------------------------------- helper functions on their own
\* get_buddy_index is called by dealloc with the recorded order of a block,
\* raised by one after every merge: up to NUM_ORDERS.
Applied(f, args, ret) == [f |-> f, args |-> args, ret |-> ret]

Apply_get_buddy_index(order, index) ==
    /\ applied = NotApplied
    /\ applied' = Applied("get_buddy_index", <<order, index_to_ptr(index)>>,
                          get_buddy_index(order, index_to_ptr(index)))
    /\ UNCHANGED <<ALLOCATOR, SLEB_ALLOCATOR, TINY_BUCKETS, MEDIUM_BUCKETS,
                   debug_assertions, status, hist, live, context, locks, buffer, calls>>

\* sizes around every power of two from half a page to the heap, and
\* alignments below, at and above a page
OrderSizes == UNION {{2 ^ k - 1, 2 ^ k, 2 ^ k + 1} : k \in START_ORDER - 1 .. ilog2(HEAP_SIZE)}
OrderAligns == {1, 8, PAGESIZE, 2 * PAGESIZE, 16 * PAGESIZE}

Apply_order_start(size, align) ==
    /\ applied = NotApplied
    /\ applied' = Applied("order_start", <<size, align>>, order_start(size, align))
    /\ UNCHANGED <<ALLOCATOR, SLEB_ALLOCATOR, TINY_BUCKETS, MEDIUM_BUCKETS,
                   debug_assertions, status, hist, live, context, locks, buffer, calls>>

NextApply ==
    \/ \E order \in 0 .. NUM_ORDERS, index \in 0 .. NUM_BLOCKS - 1 :
           Apply_get_buddy_index(order, index)
    \/ \E size \in OrderSizes, align \in OrderAligns : Apply_order_start(size, align)

SpecApply == Init /\ [][NextApply]_vars

\* ------------------------------------------ the Buddy paths on their own
\* The part of alloc that follows the size test (lines 209-240) and the part
\* of dealloc that follows the Sleb range test (lines 251-264), applied to
\* the blocks the first has returned: BuddyAllocator without the dispatcher
\* and without Sleb's reservation in front of it.
RequestsBuddy == {<<PAGESIZE, 1>>, <<2 * PAGESIZE, 1>>, <<4 * PAGESIZE, 1>>}

BuddyAllocate(size, align) ==
    /\ status = OK
    /\ Allocated(size, align,
                 buddy_ret(Cur, buddy_alloc(ALLOCATOR, debug_assertions, size, align)))
    /\ UNCHANGED <<context, locks, buffer, calls, applied>>

BuddyDeallocate(k) ==
    /\ status = OK
    /\ k \in 1 .. Len(live)
    /\ Deallocated(k, buddy_done(Cur, buddy_dealloc(ALLOCATOR, debug_assertions,
                                                    live[k].ptr), None))
    /\ UNCHANGED <<context, locks, buffer, calls, applied>>

NextBuddy ==
    \/ \E req \in RequestsBuddy : Len(hist) < MaxOpsBuddy /\ BuddyAllocate(req[1], req[2])
    \/ \E k \in 1 .. Len(live) : Len(hist) < MaxOpsBuddy /\ BuddyDeallocate(k)

SpecBuddy == Init /\ [][NextBuddy]_vars

\* ------------------------------------------- the free lists on their own
\* push_block, pop_head and remove_block called in any sequence on the
\* allocator as new() built it.  push_block is given a block that is not
\* free and remove_block a free block of the order that is on its list
\* (their debug assertions and their callers' conditions).
ListOrders == 0 .. MaxListOrder
ListBlocks == 1 .. MaxListBlock
ListCall(op, order, index, r) ==
    /\ ALLOCATOR' = r.a
    /\ status' = r.st
    /\ hist' = Append(hist, [op |-> op, order |-> order, index |-> index,
                             ret |-> r.ret, st |-> r.st])
    /\ UNCHANGED <<SLEB_ALLOCATOR, TINY_BUCKETS, MEDIUM_BUCKETS, debug_assertions,
                   live, context, locks, buffer, calls, applied>>

RECURSIVE OnList(_, _, _, _)
OnList(a, i, index, fuel) ==
    IF i = NO_BLOCK \/ i \notin DOMAIN a.blocks \/ fuel = 0 THEN FALSE
    ELSE IF i = index THEN TRUE
    ELSE OnList(a, a.blocks[i].next, index, fuel - 1)

PushBlock(order, index) ==
    /\ status = OK
    /\ ~ALLOCATOR.blocks[index].free
    /\ ListCall("push_block", order, index,
                push_block(ALLOCATOR, debug_assertions, order, index))

PopHead(order) ==
    /\ status = OK
    /\ ListCall("pop_head", order, None, pop_head(ALLOCATOR, order))

RemoveBlock(order, index) ==
    /\ status = OK
    /\ ALLOCATOR.blocks[index].free
    /\ ALLOCATOR.blocks[index].order = order
    /\ OnList(ALLOCATOR, ALLOCATOR.heads[order], index, NUM_BLOCKS)
    /\ ListCall("remove_block", order, index,
                remove_block(ALLOCATOR, debug_assertions, order, index))

NextLists ==
    \/ \E order \in ListOrders, index \in ListBlocks :
           Len(hist) < MaxListOps /\ PushBlock(order, index)
    \/ \E order \in ListOrders : Len(hist) < MaxListOps /\ PopHead(order)
    \/ \E order \in ListOrders, index \in ListBlocks :
           Len(hist) < MaxListOps /\ RemoveBlock(order, index)

SpecLists == Init /\ [][NextLists]_vars

\* ------------------------------------------- the Sleb routines on their own
\* Sleb.alloc and Sleb.free applied, through alloc and dealloc, to a Sleb whose
\* region is reserved and whose first two pages are carved as the routines
\* carve them: a page of a class with its first slot, all but its last slot,
\* or every slot in use, and each bucket empty or naming a page of its class.

\* lines 117, 150-156: the MetadataType a page of slot size c is promoted to
TypeOf(c) ==
    CASE c = 32 -> "Tiny32"
      [] c = 64 -> "Medium64"
      [] c = 128 -> "Medium128"
      [] c = 256 -> "Medium256"
      [] c = 512 -> "Medium512"
      [] c = 1024 -> "Medium1024"
      [] c = 2048 -> "Medium2048"

PoolClasses == {32, 64, 256, 1024}
NoPage == [class |-> 0, fill |-> "none"]

\* the slots a page of class c holds
Capacity(c) == IF c = 32 THEN SMALL_32_PAGES_PER_PAGE ELSE 4096 \div c

UsedSlots(c, fill) ==
    CASE fill = "one" -> {0}
      [] fill = "last" -> 0 .. Capacity(c) - 2
      [] fill = "full" -> 0 .. Capacity(c) - 1
      [] OTHER -> {}

\* lines 286, 300-301: the address of a slot of the page of metadata index pg
SlotAddress(base, pg, c, slot) ==
    base + PAGESIZE * (pg + 1)
    + (IF c = 32 THEN 8 * SMALL_32_BITFIELD_SIZE_64 + 32 * slot ELSE slot * c)

\* the record and the bitmap of page pg once promoted to class c (lines
\* 117-126, 150-163) and with the slots of `used` handed out (lines 285, 137)
Carved(z, pg, c, used) ==
    IF c = 0 THEN z
    ELSE IF c = 32
    THEN [z EXCEPT !.metadata[pg].sleb_type = MetadataType["Tiny32"],
                   !.bitfield[pg] =
                       [w \in 0 .. SMALL_32_BITFIELD_SIZE_64 - 1 |->
                           {u % 64 : u \in {v \in used : v \div 64 = w}}]]
    ELSE [z EXCEPT !.metadata[pg].sleb_type = MetadataType[TypeOf(c)],
                   !.metadata[pg].extra_bits = used \cup (4096 \div c .. 63)]

\* page 0 is carved; page 1 is carved or still Empty
PoolPages ==
    {<<p0, p1>> : p0 \in [class : PoolClasses, fill : {"one", "last", "full"}],
                  p1 \in [class : PoolClasses, fill : {"one", "last", "full"}]
                         \cup {NoPage}}

\* each bucket is empty or names a page of its class
PoolTiny(pages) ==
    {b \in [0 .. 0 -> {BUCKET_INDEX_NONE, 0, 1}] :
        b[0] = BUCKET_INDEX_NONE \/ pages[b[0] + 1].class = 32}
PoolMedium(pages) ==
    {b \in [0 .. 4 -> {BUCKET_INDEX_NONE, 0, 1}] :
        \A i \in 0 .. 4 :
            b[i] = BUCKET_INDEX_NONE \/ pages[b[i] + 1].class = 2 ^ (i + 6)}

\* the caller's allocations on a page: its first and its last slot in use
PageLive(base, pg, p) ==
    LET Slot(slot) == [ptr |-> SlotAddress(base, pg, p.class, slot),
                       size |-> p.class, align |-> 1, by |-> "sleb"]
    IN  IF p = NoPage THEN <<>>
        ELSE IF p.fill = "one" THEN <<Slot(0)>>
        ELSE <<Slot(0), Slot(IF p.fill = "last" THEN Capacity(p.class) - 2
                             ELSE Capacity(p.class) - 1)>>

\* lines 34-43: the machine once the region is reserved on the fresh heap
Reserve(dbg) ==
    SLEB_ALLOCATOR_lock(
        Machine(new, [initialized |-> FALSE] @@ init(NULL),
                [i \in 0 .. 0 |-> BUCKET_INDEX_NONE],
                [i \in 0 .. 4 |-> BUCKET_INDEX_NONE]), dbg).a

InitPool ==
    /\ debug_assertions \in BOOLEAN
    /\ ALLOCATOR = Reserve(debug_assertions).ALLOCATOR
    /\ \E pages \in PoolPages :
          /\ SLEB_ALLOCATOR =
                Carved(Carved(Reserve(debug_assertions).SLEB_ALLOCATOR,
                              0, pages[1].class,
                              UsedSlots(pages[1].class, pages[1].fill)),
                       1, pages[2].class, UsedSlots(pages[2].class, pages[2].fill))
          /\ TINY_BUCKETS \in PoolTiny(pages)
          /\ MEDIUM_BUCKETS \in PoolMedium(pages)
          /\ live = PageLive(Reserve(debug_assertions).SLEB_ALLOCATOR.base, 0, pages[1])
                    \o PageLive(Reserve(debug_assertions).SLEB_ALLOCATOR.base, 1, pages[2])
    /\ status = OK
    /\ hist = <<>>
    /\ context = [c \in Ctx |-> Idle]
    /\ locks = Unlocked
    /\ calls = <<>>
    /\ applied = NotApplied
    /\ buffer = CircularBuffer_new(MaxN)

NextPool ==
    \/ \E c \in {32, 64, 128, 256, 512, 1024, 2048} :
          Len(hist) < MaxOpsPool /\ Allocate(c, 1)
    \/ \E k \in 1 .. Len(live) : Len(hist) < MaxOpsPool /\ Deallocate(k)

SpecPool == InitPool /\ [][NextPool]_vars

\* ============================================================== properties
Overlap(p1, n1, p2, n2) == p1 < p2 + n2 /\ p2 < p1 + n1
Last(seq) == seq[Len(seq)]
Effective(h) == Max(h.size, h.align)
IsAlloc(h) == h.op = "alloc"
IsDealloc(h) == h.op = "dealloc"
Served(h) == IsAlloc(h) /\ h.st = OK /\ h.ptr # NULL

\* C1: no two live allocations overlap, the 1 MiB region the buddy allocator
\* gave to Sleb counting as live against every buddy-served allocation.
C1_NoLiveOverlap ==
    /\ \A i, j \in 1 .. Len(live) :
          i < j => ~Overlap(live[i].ptr, live[i].size, live[j].ptr, live[j].size)
    /\ SLEB_ALLOCATOR.initialized =>
          \A i \in 1 .. Len(live) :
             live[i].by = "buddy" =>
                ~Overlap(live[i].ptr, live[i].size, SLEB_ALLOCATOR.base, ONE_MIB)

\* exactly one free block, block 0 at the maximum order, alone on its list
SingleMaxBlock ==
    /\ ALLOCATOR.heads[NUM_ORDERS - 1] = 0
    /\ \A o \in 0 .. NUM_ORDERS - 2 : ALLOCATOR.heads[o] = NO_BLOCK
    /\ {i \in DOMAIN ALLOCATOR.blocks : ALLOCATOR.blocks[i].free} = {0}
    /\ ALLOCATOR.blocks[0].order = NUM_ORDERS - 1
    /\ ALLOCATOR.blocks[0].next = NO_BLOCK

PageAlloc(h) == IsAlloc(h) /\ h.size = PAGESIZE /\ h.align = 1

\* C2: on a fresh buddy allocator, allocating one page and deallocating it
\* leaves a single free block of the maximum order and every lower list empty.
C2_AllocFreeCoalesces ==
    (/\ Len(hist) = 2
     /\ PageAlloc(hist[1])
     /\ IsDealloc(hist[2]) /\ hist[2].ptr = hist[1].ptr)
    => (status = OK /\ SingleMaxBlock)

\* C3: on a fresh buddy allocator two page allocations return distinct,
\* non-overlapping addresses, and deallocating both, in either order, leaves
\* a single free block of the maximum order.
C3_TwoPagesEitherOrder ==
    /\ (/\ Len(hist) >= 2 /\ PageAlloc(hist[1]) /\ PageAlloc(hist[2]))
       => (/\ Served(hist[1]) /\ Served(hist[2])
           /\ ~Overlap(hist[1].ptr, PAGESIZE, hist[2].ptr, PAGESIZE))
    /\ (/\ Len(hist) >= 3 /\ PageAlloc(hist[1]) /\ PageAlloc(hist[2])
        /\ IsDealloc(hist[3]) /\ hist[3].ptr \in {hist[1].ptr, hist[2].ptr})
       => hist[3].st = OK
    /\ (/\ Len(hist) = 4 /\ PageAlloc(hist[1]) /\ PageAlloc(hist[2])
        /\ IsDealloc(hist[3]) /\ IsDealloc(hist[4])
        /\ {hist[3].ptr, hist[4].ptr} = {hist[1].ptr, hist[2].ptr})
       => (status = OK /\ SingleMaxBlock)

\* an order "has a free block" when its free list is not empty
HasFreeBlock(a, order) == a.heads[order] # NO_BLOCK
NoFreeBlockFrom(a, order) ==
    \A o \in DOMAIN a.heads : o >= order => ~HasFreeBlock(a, o)

\* the call the step has just made
Called == hist' # hist
TheCall == Last(hist')
SlebUnchanged ==
    /\ SLEB_ALLOCATOR' = SLEB_ALLOCATOR
    /\ TINY_BUCKETS' = TINY_BUCKETS
    /\ MEDIUM_BUCKETS' = MEDIUM_BUCKETS

C5_OversizeFailsCleanly ==
    [][(/\ Called /\ IsAlloc(TheCall) /\ Effective(TheCall) > HEAP_SIZE)
       => (/\ TheCall.ptr = NULL /\ TheCall.st = OK /\ status' = OK
           /\ ALLOCATOR' = ALLOCATOR /\ SlebUnchanged)]_vars

\* the 4096-byte page an address lies in
PageOf(ptr) == ptr \div PAGESIZE
EmptyPages(sleb) ==
    Cardinality({i \in DOMAIN sleb.metadata : get_type(sleb.metadata[i]) = "Empty"})
SlebAlloc(h) == IsAlloc(h) /\ h.route = "sleb"

\* C6: alloc(N), free of the pointer, alloc(N) again, one right after the
\* other, for N in 1..2048: the second alloc returns an address in the page
\* of the freed slot and leaves the number of Empty pages as it was.
C6_RoundTripReusesPage ==
    [][(/\ Called /\ Len(hist') >= 3
        /\ LET a1 == hist'[Len(hist') - 2]
               f == hist'[Len(hist') - 1]
               a2 == hist'[Len(hist')]
           IN  /\ SlebAlloc(a1) /\ Served(a1) /\ a1.size \in 1 .. 2048
               /\ IsDealloc(f) /\ f.ptr = a1.ptr /\ f.st = OK
               /\ SlebAlloc(a2) /\ a2.size = a1.size /\ a2.align = a1.align)
       => (/\ Served(TheCall)
           /\ PageOf(TheCall.ptr) = PageOf(hist'[Len(hist') - 2].ptr)
           /\ EmptyPages(SLEB_ALLOCATOR') = EmptyPages(SLEB_ALLOCATOR))]_vars

\* a call of the Tiny32 class asking for 32 bytes
Tiny32Alloc(h) == SlebAlloc(h) /\ Effective(h) = 32
\* hist[j..n] are 32-byte allocations and no earlier call touched the class,
\* so that the run starts with no Tiny32 page
TinyRun(j, n) ==
    /\ \A i \in j .. n : Tiny32Alloc(hist[i])
    /\ \A i \in 1 .. j - 1 : ~(SlebAlloc(hist[i]) /\ Effective(hist[i]) <= 32)

\* C7: from a Sleb without a Tiny32 page, up to 127 consecutive 32-byte
\* allocations all succeed, all from one page, in pairwise disjoint 32-byte
\* ranges; no second Empty page is promoted before the 128th.
C7_TinyPageHolds127 ==
    \A j, n \in 1 .. Len(hist) :
        (j <= n /\ n - j + 1 <= SMALL_32_PAGES_PER_PAGE /\ TinyRun(j, n)
            /\ \A i \in 1 .. j - 1 : hist[i].st = OK)
        => /\ \A i \in j .. n : Served(hist[i])
           /\ \A i \in j .. n : PageOf(hist[i].ptr) = PageOf(hist[j].ptr)
           /\ \A i, k \in j .. n :
                 i < k => ~Overlap(hist[i].ptr, 32, hist[k].ptr, 32)

\* the seven size classes, and the tag a page of each class is given
SizeClasses == {32, 64, 128, 256, 512, 1024, 2048}
ClassOf(size) ==
    CHOOSE c \in SizeClasses :
        c >= size /\ \A d \in SizeClasses : d >= size => c <= d
ClassTag(c) ==
    CASE c = 32 -> MetadataType["Tiny32"]
      [] c = 64 -> MetadataType["Medium64"]
      [] c = 128 -> MetadataType["Medium128"]
      [] c = 256 -> MetadataType["Medium256"]
      [] c = 512 -> MetadataType["Medium512"]
      [] c = 1024 -> MetadataType["Medium1024"]
      [] c = 2048 -> MetadataType["Medium2048"]
\* the metadata index and the base of the carved page an address lies in
MdIndexOf(ptr) == (ptr - SLEB_ALLOCATOR.base) \div PAGESIZE - 1
PageBase(ptr) == ptr - (ptr % PAGESIZE)

\* C8: every request of 1..2048 bytes is served from the smallest class that
\* holds it, and a Medium slot lies at page_base + k * class_size with
\* k < 4096 / class_size.
C8_SmallestClassServes ==
    \A i \in 1 .. Len(hist) :
        (SlebAlloc(hist[i]) /\ Effective(hist[i]) \in 1 .. 2048
            /\ SLEB_ALLOCATOR.initialized)
        => LET h == hist[i]
               c == ClassOf(Effective(h))
           IN  /\ h.st = OK
               /\ h.ptr # NULL =>
                    /\ MdIndexOf(h.ptr) \in DOMAIN SLEB_ALLOCATOR.metadata
                    /\ SLEB_ALLOCATOR.metadata[MdIndexOf(h.ptr)].sleb_type = ClassTag(c)
                    /\ c >= 64 =>
                         \E k \in 0 .. (4096 \div c) - 1 :
                            h.ptr = PageBase(h.ptr) + k * c

C10_FreeGoesToProducer ==
    /\ \A k \in 1 .. Len(live) :
          /\ live[k].by = "sleb" => within_bounds(SLEB_ALLOCATOR, live[k].ptr)
          /\ (live[k].by = "buddy" /\ SLEB_ALLOCATOR.initialized)
                => ~within_bounds(SLEB_ALLOCATOR, live[k].ptr)
    /\ \A i \in 1 .. Len(hist) :
          (IsDealloc(hist[i]) /\ hist[i].route # "none")
             => hist[i].route = hist[i].by

\* the bucket that caches the pages of the class a request falls in
BucketOf(tiny, medium, c) ==
    IF c = 32 THEN tiny[0]
    ELSE IF ilog2(c) - 6 \in DOMAIN medium THEN medium[ilog2(c) - 6]
    ELSE BUCKET_INDEX_NONE
\* hist[n - 2] is an allocation that failed for lack of space, hist[n - 1]
\* the deallocation of a live allocation of the same class or order
FreedAfterFailure(n) ==
    /\ n >= 2 /\ n <= Len(hist)
    /\ IsAlloc(hist[n - 1]) /\ hist[n - 1].st = OK /\ hist[n - 1].ptr = NULL
    /\ IsDealloc(hist[n]) /\ hist[n].by = hist[n - 1].route
    /\ IF hist[n - 1].route = "sleb"
       THEN ClassOf(Effective(hist[n])) = ClassOf(Effective(hist[n - 1]))
       ELSE order_start(hist[n].size, hist[n].align) = hist[n - 1].order

\* C11: after an allocation has failed for lack of space and a live
\* allocation of the same size class (Sleb) or order (Buddy) has been
\* deallocated, the same request, repeated, succeeds.
C11_FreeEndsExhaustion ==
    \A n \in 2 .. Len(hist) :
        FreedAfterFailure(n) =>
            /\ hist[n].st = OK
            /\ (/\ n < Len(hist) /\ IsAlloc(hist[n + 1])
                /\ hist[n + 1].size = hist[n - 1].size
                /\ hist[n + 1].align = hist[n - 1].align)
               => Served(hist[n + 1])

\* the type tag and the slot bitmap of every metadata record
TagsAndBitmaps(sleb) ==
    <<[i \in DOMAIN sleb.metadata |->
          <<sleb.metadata[i].sleb_type, sleb.metadata[i].extra_bits>>],
      sleb.bitfield>>

\* C12: a Sleb allocation made when the bucket of the requested class caches
\* no page and no metadata entry is Empty returns null, without a panic, and
\* changes no record's type tag or slot bitmap.
C12_NoEmptyPageReturnsNull ==
    [][(/\ Called /\ SlebAlloc(TheCall) /\ SLEB_ALLOCATOR.initialized
        /\ Effective(TheCall) \in 1 .. 2048
        /\ EmptyPages(SLEB_ALLOCATOR) = 0
        /\ BucketOf(TINY_BUCKETS, MEDIUM_BUCKETS, ClassOf(Effective(TheCall)))
              = BUCKET_INDEX_NONE)
       => (/\ TheCall.ptr = NULL /\ TheCall.st = OK
           /\ TagsAndBitmaps(SLEB_ALLOCATOR') = TagsAndBitmaps(SLEB_ALLOCATOR))]_vars

\* C15: on a fresh heap a request for 2^k pages succeeds for every k with
\* 2^k pages no larger than the heap, the whole heap of 1024 pages included.
C15_EveryPowerOfTwoServed ==
    (/\ Len(hist) >= 1 /\ IsAlloc(hist[1]) /\ hist[1].align = 1
     /\ \E k \in 0 .. ilog2(NUM_BLOCKS) : hist[1].size = BLOCK_SIZE * 2 ^ k)
    => Served(hist[1])

\* C16: every non-null address returned for a power-of-two alignment up to
\* the page size is a multiple of that alignment.
C16_AddressAligned ==
    \A i \in 1 .. Len(hist) :
        (Served(hist[i]) /\ \E k \in 0 .. START_ORDER : hist[i].align = 2 ^ k)
        => hist[i].ptr % hist[i].align = 0

\* C18: right after construction block 0 is free at the maximum order, is
\* the head and only member of that order's list, every other list is empty,
\* and the block spans the whole heap.
C18_FreshHeapOneBlock ==
    hist = <<>> =>
        /\ SingleMaxBlock
        /\ 2 ^ ALLOCATOR.blocks[0].order = NUM_BLOCKS

\* the blocks met following next links from the head of `order`; a block met
\* a second time ends the walk and is listed twice
RECURSIVE FreeListFrom(_, _, _)
FreeListFrom(a, i, met) ==
    IF i = NO_BLOCK \/ i \notin DOMAIN a.blocks THEN met
    ELSE IF \E j \in DOMAIN met : met[j] = i THEN Append(met, i)
    ELSE FreeListFrom(a, a.blocks[i].next, Append(met, i))
FreeList(a, order) == FreeListFrom(a, a.heads[order], <<>>)
Times(seq, b) == Cardinality({j \in DOMAIN seq : seq[j] = b})

\* C19: a block with its free flag set and recorded order k is met exactly
\* once from the order-k head and from no other head, and every block met
\* from a head has its free flag set.
C19_FreeListMembership ==
    /\ \A b \in DOMAIN ALLOCATOR.blocks :
          ALLOCATOR.blocks[b].free =>
             \A o \in DOMAIN ALLOCATOR.heads :
                Times(FreeList(ALLOCATOR, o), b)
                   = IF o = ALLOCATOR.blocks[b].order THEN 1 ELSE 0
    /\ \A o \in DOMAIN ALLOCATOR.heads :
          \A j \in DOMAIN FreeList(ALLOCATOR, o) :
             ALLOCATOR.blocks[FreeList(ALLOCATOR, o)[j]].free

\* what C20 says of pop_head(order) applied to the allocator a
PopHeadAsSpecified(a, order) ==
    IF a.heads[order] = NO_BLOCK
    THEN pop_head(a, order) = Res(a, None, OK)
    ELSE /\ pop_head(a, order).st = OK
         /\ pop_head(a, order).ret = a.heads[order]
         /\ ~pop_head(a, order).a.blocks[a.heads[order]].free
         /\ pop_head(a, order).a.heads[order] = a.blocks[a.heads[order]].next
         /\ \A o \in DOMAIN a.heads \ {order} :
               pop_head(a, order).a.heads[o] = a.heads[o]

\* C20: pop_head(order) on a non-empty list returns the head, marks it not
\* free, makes its successor the head of that same list and leaves every
\* other head alone; on an empty list it returns None and changes nothing.
C20_PopHead ==
    \A order \in DOMAIN ALLOCATOR.heads : PopHeadAsSpecified(ALLOCATOR, order)

\* the items a buffer of capacity n holds after the calls cs, oldest first:
\* a push onto a full buffer replaces the oldest, a pop takes the newest
KeptAfter(kept, c, n) ==
    IF c.op = "push_back"
    THEN IF Len(kept) >= n THEN Append(Tail(kept), c.item) ELSE Append(kept, c.item)
    ELSE IF kept = <<>> THEN kept ELSE SubSeq(kept, 1, Len(kept) - 1)
RECURSIVE Kept(_, _)
Kept(cs, n) ==
    IF cs = <<>> THEN <<>>
    ELSE KeptAfter(Kept(SubSeq(cs, 1, Len(cs) - 1), n), Last(cs), n)
NewestOrNone(kept) == IF kept = <<>> THEN None ELSE Last(kept)

\* C17: for a buffer of capacity N > 0, after any sequence of push_back and
\* pop_back calls, pop_back returns the most recently pushed item not yet
\* popped, and None only when no pushed item remains.
C17_PopBackReturnsNewest ==
    \A i \in 1 .. Len(calls) :
        /\ calls[i].st = OK
        /\ calls[i].op = "pop_back" =>
              calls[i].ret = NewestOrNone(Kept(SubSeq(calls, 1, i - 1), buffer.N))

\* the lock a context is about to take, or is spinning on
Acquiring(c) ==
    CASE context[c].pc = "sleb_deref" -> "once"
      [] context[c].pc = "init_lock" -> "ALLOCATOR"
      [] context[c].pc = "sleb_lock" -> "SLEB_ALLOCATOR"
      [] context[c].pc = "sleb_body" -> bucket_taken(c)
      [] context[c].pc = "buddy_lock" -> "ALLOCATOR"
      [] OTHER -> "none"
\* c waits for something d holds
WaitsFor(c, d) == Acquiring(c) # "none" /\ locks[Acquiring(c)] = d
\* a set of contexts each of which waits for a member of the set
Deadlock ==
    \E W \in SUBSET Ctx : W # {} /\ \A c \in W : \E d \in W : WaitsFor(c, d)
\* the context that holds a spin lock is running under it, not waiting
HolderRuns(l, pcs) == locks[l] # 0 => context[locks[l]].pc \in pcs

\* C13: with contexts that never re-enter the allocator no deadlock state is
\* reachable: no set of contexts wait for one another, the holder of the
\* Buddy lock never waits for Sleb (or for anything), and the holder of the
\* Sleb lock never waits for Buddy; only the one-time initialiser takes the
\* Buddy lock while the others wait for it.
C13_NoDeadlock ==
    status = OK =>
        /\ ~Deadlock
        /\ HolderRuns("SLEB_ALLOCATOR", {"sleb_body", "bucket_body"})
        /\ HolderRuns("TINY_BUCKETS", {"bucket_body"})
        /\ HolderRuns("MEDIUM_BUCKETS", {"bucket_body"})
        /\ HolderRuns("ALLOCATOR", {"buddy_body", "init_alloc"})
        /\ HolderRuns("once", {"init_lock", "init_alloc"})

\* the initialiser waits for the Buddy lock that another context holds,
\* while a third party, or the same one, is about to ask for Sleb
C13_Witness ==
    \E c, d \in Ctx :
        /\ c # d /\ status = OK
        /\ locks.once = c /\ context[c].pc = "init_lock"
        /\ locks.ALLOCATOR = d /\ context[d].pc = "buddy_body"

Reserving(c) == context[c].pc = "init_alloc" /\ context'[c].pc # "init_alloc"
SlebRuns(c) == /\ context[c].pc \in {"sleb_body", "bucket_body"}
               /\ context'[c].pc # context[c].pc

\* C14: the Sleb region is reserved from Buddy at most once (the initialiser
\* runs only while Sleb is not initialised, one context at a time, and once
\* initialised Sleb keeps its region), and after the reservation no
\* Sleb.alloc or Sleb.free changes a block record or a free-list head.
C14_ReservedOnce ==
    [][/\ \A c \in Ctx :
             Reserving(c) =>
                /\ ~SLEB_ALLOCATOR.initialized
                /\ locks.once = c
                /\ status' = OK => SLEB_ALLOCATOR'.initialized
       /\ SLEB_ALLOCATOR.initialized =>
             /\ SLEB_ALLOCATOR'.initialized
             /\ SLEB_ALLOCATOR'.base = SLEB_ALLOCATOR.base
       /\ \A c \in Ctx : SlebRuns(c) => ALLOCATOR' = ALLOCATOR]_vars

\* Sleb has served an allocation and freed one after its reservation
C14_Witness ==
    /\ SLEB_ALLOCATOR.initialized /\ status = OK
    /\ \E i, j \in 1 .. Len(hist) :
          /\ i < j
          /\ SlebAlloc(hist[i]) /\ Served(hist[i])
          /\ IsDealloc(hist[j]) /\ hist[j].route = "sleb" /\ hist[j].st = OK

\* the lowest order from `target` up whose free list is not empty, or None
RECURSIVE LowestNonEmpty(_, _)
LowestNonEmpty(a, order) ==
    IF order \notin DOMAIN a.heads THEN None
    ELSE IF a.heads[order] # NO_BLOCK THEN order
    ELSE LowestNonEmpty(a, order + 1)
\* that list's head is a block with its free flag set
HeadIsFree(a, order) ==
    /\ order # None
    /\ a.heads[order] \in DOMAIN a.blocks
    /\ a.blocks[a.heads[order]].free
\* a request for exactly 2^target pages
PagesAlloc(a, dbg, target) == buddy_alloc(a, dbg, BLOCK_SIZE * 2 ^ target, 1)
RightHalves(i, o, target) == {i + 2 ^ (j - 1) : j \in target + 1 .. o}

\* what C21 says of the allocation r made from a, which took block i of
\* order o above target
SplitAsSpecified(a, r, i, o, target) ==
    /\ r.st = OK
    /\ r.ret = index_to_ptr(i)
    /\ r.a.blocks[i].order = target
    /\ \A j \in target + 1 .. o :
          /\ i + 2 ^ (j - 1) \in DOMAIN r.a.blocks
          /\ r.a.blocks[i + 2 ^ (j - 1)].free
          /\ r.a.blocks[i + 2 ^ (j - 1)].order = j - 1
          /\ r.a.heads[j - 1] = i + 2 ^ (j - 1)
    /\ \A b \in DOMAIN a.blocks :
          (r.a.blocks[b].free /\ ~a.blocks[b].free) => b \in RightHalves(i, o, target)

\* C21: when allocate takes a free block i of an order o above the target,
\* it pushes exactly the right halves i + 2^(j-1) onto the order-(j-1) list
\* for j from o down to target + 1, records the target order on block i and
\* returns block i's address.
C21_SplitPushesRightHalves ==
    \A target \in DOMAIN ALLOCATOR.heads :
        (/\ LowestNonEmpty(ALLOCATOR, target) # None
         /\ LowestNonEmpty(ALLOCATOR, target) > target
         /\ HeadIsFree(ALLOCATOR, LowestNonEmpty(ALLOCATOR, target)))
        => SplitAsSpecified(ALLOCATOR,
                            PagesAlloc(ALLOCATOR, debug_assertions, target),
                            ALLOCATOR.heads[LowestNonEmpty(ALLOCATOR, target)],
                            LowestNonEmpty(ALLOCATOR, target), target)

\* C22: allocate returns the head of the target order's list when that list
\* is not empty, and otherwise the head of the lowest non-empty list above
\* the target.
C22_LowestSufficientOrder ==
    \A target \in DOMAIN ALLOCATOR.heads :
        (/\ LowestNonEmpty(ALLOCATOR, target) # None
         /\ HeadIsFree(ALLOCATOR, LowestNonEmpty(ALLOCATOR, target)))
        => /\ PagesAlloc(ALLOCATOR, debug_assertions, target).st = OK
           /\ PagesAlloc(ALLOCATOR, debug_assertions, target).ret
                 = index_to_ptr(ALLOCATOR.heads[LowestNonEmpty(ALLOCATOR, target)])

BuddyLive(k) == live[k].by = "buddy"

\* C28: the recorded order of the block of every live Buddy allocation is
\* the order the allocation was served at.
C28_RecordedOrderIsServedOrder ==
    \A k \in 1 .. Len(live) :
        BuddyLive(k) =>
            ALLOCATOR.blocks[get_block_index(live[k].ptr)].order
                = order_start(live[k].size, live[k].align)

\* the pages a free-list block, a live Buddy allocation, the Sleb region cover
BlockPages(index, order) == index .. index + 2 ^ order - 1
FreeCover(a, p) ==
    {<<o, j>> \in (DOMAIN a.heads) \X (1 .. NUM_BLOCKS) :
        /\ j <= Len(FreeList(a, o))
        /\ p \in BlockPages(FreeList(a, o)[j], a.blocks[FreeList(a, o)[j]].order)}
LiveCover(p) ==
    {k \in 1 .. Len(live) :
        /\ BuddyLive(k)
        /\ p \in BlockPages(get_block_index(live[k].ptr),
                            order_start(live[k].size, live[k].align))}
SlebCover(p) ==
    IF SLEB_ALLOCATOR.initialized
          /\ p \in BlockPages(get_block_index(SLEB_ALLOCATOR.base), ilog2(ONE_MIB \div PAGESIZE))
    THEN 1 ELSE 0

\* C29: in every reachable state each page of the heap belongs to exactly one
\* free-list block or to exactly one live allocation, the Sleb region
\* included.
C29_PagesPartitioned ==
    \A p \in 0 .. NUM_BLOCKS - 1 :
        Cardinality(FreeCover(ALLOCATOR, p)) + Cardinality(LiveCover(p)) + SlebCover(p) = 1

\* C30: on calls whose sizes fit the heap no index into heads or blocks is
\* out of range.  Without debug assertions an index out of range is the only
\* panic on the Buddy path of alloc.
C30_IndicesInRange ==
    [][(/\ Called /\ IsAlloc(TheCall) /\ TheCall.route = "buddy"
        /\ Effective(TheCall) <= HEAP_SIZE
        /\ ~debug_assertions)
       => TheCall.st = OK]_vars

\* the buddy of block i at order k, in blocks: 2^k up when i is a multiple of
\* 2^(k+1), 2^k down otherwise; none outside the heap
InHeap(index) == IF index \in 0 .. NUM_BLOCKS - 1 THEN index ELSE None
BuddyOf(i, k) == InHeap(IF i % 2 ^ (k + 1) = 0 THEN i + 2 ^ k ELSE i - 2 ^ k)
AppliedBuddy == applied # NotApplied /\ applied.f = "get_buddy_index"

\* C24 as stated: get_buddy_index returns the block 2^(k+1) pages above or
\* below the block, or nothing when that is outside the heap.
C24_BuddyAtTwiceTheSize ==
    AppliedBuddy =>
        applied.ret \in {InHeap(get_block_index(applied.args[2]) + 2 ^ (applied.args[1] + 1)),
                         InHeap(get_block_index(applied.args[2]) - 2 ^ (applied.args[1] + 1))}

\* C24 (amended): for a block of order k at heap-relative address A,
\* get_buddy_index returns the block at A + 2^k * pagesize when A is a
\* multiple of 2^(k+1) * pagesize and the block at A - 2^k * pagesize
\* otherwise, and no buddy when that address is outside the heap.
C24_BuddyAtOwnSize ==
    AppliedBuddy =>
        applied.ret = BuddyOf(get_block_index(applied.args[2]), applied.args[1])

\* the upper half of a pair: its buddy is the block 2^k pages below
C24_Witness ==
    /\ AppliedBuddy
    /\ applied.ret # None
    /\ applied.ret = get_block_index(applied.args[2]) - 2 ^ applied.args[1]

AppliedOrder == applied # NotApplied /\ applied.f = "order_start"
CeilLog2(n) == CHOOSE e \in 0 .. 30 : 2 ^ e >= n /\ (e = 0 \/ 2 ^ (e - 1) < n)
SmallestOrder(n) ==
    CHOOSE k \in 0 .. ilog2(NUM_BLOCKS) :
        2 ^ k * PAGESIZE >= n /\ \A j \in 0 .. k - 1 : 2 ^ j * PAGESIZE < n

\* C25: a request routed to Buddy with max(size, align) no larger than the
\* heap is served at order ceil(log2(max(size, align, pagesize))) -
\* log2(pagesize), the smallest k with 2^k * 4096 >= max(size, align).
C25_OrderIsSmallestSufficient ==
    (/\ AppliedOrder
     /\ route(applied.args[1], applied.args[2]) = "buddy"
     /\ Max(applied.args[1], applied.args[2]) <= HEAP_SIZE)
    => /\ applied.ret = SmallestOrder(Max(applied.args[1], applied.args[2]))
       /\ applied.ret = CeilLog2(Max(Max(applied.args[1], applied.args[2]), PAGESIZE))
                           - ilog2(PAGESIZE)

\* a size that is not a power of two, above a page, with a smaller alignment
C25_Witness ==
    /\ AppliedOrder
    /\ route(applied.args[1], applied.args[2]) = "buddy"
    /\ applied.args[1] = 2 ^ 15 + 1
    /\ applied.args[2] = 2 * PAGESIZE
    /\ applied.ret = 4

\* a sequence without its entries equal to b
RECURSIVE Without(_, _)
Without(seq, b) ==
    IF seq = <<>> THEN <<>>
    ELSE IF Head(seq) = b THEN Without(Tail(seq), b)
    ELSE <<Head(seq)>> \o Without(Tail(seq), b)

\* C27: remove_block(order, index) on a free block that is on the order's
\* list leaves that list with its former members except index, in the same
\* sequence.
C27_RemoveBlockSplices ==
    [][(Called /\ TheCall.op = "remove_block")
       => /\ TheCall.st = OK
          /\ FreeList(ALLOCATOR', TheCall.order)
                = Without(FreeList(ALLOCATOR, TheCall.order), TheCall.index)]_vars

\* the merges the loop of dealloc makes from allocator a for the block at
\* addr, starting at `order`: the order of each, the buddy removed and the
\* order recorded on that buddy
RECURSIVE Merges(_, _, _, _)
Merges(a, dbg, order, addr) ==
    IF get_buddy_index(order, addr) = None THEN <<>>
    ELSE IF ~a.blocks[get_buddy_index(order, addr)].free THEN <<>>
    ELSE <<[order |-> order, buddy |-> get_buddy_index(order, addr),
            recorded |-> a.blocks[get_buddy_index(order, addr)].order]>>
         \o (IF remove_block(a, dbg, order, get_buddy_index(order, addr)).st # OK
             THEN <<>>
             ELSE Merges(remove_block(a, dbg, order, get_buddy_index(order, addr)).a,
                         dbg, order + 1, addr))
FreedBlock == get_block_index(TheCall.ptr)
FreedOrder == ALLOCATOR.blocks[FreedBlock].order
TheMerges == Merges(ALLOCATOR, debug_assertions, FreedOrder, TheCall.ptr)
Lowest(S) == CHOOSE x \in S : \A y \in S : x <= y
MergedBlocks == {FreedBlock} \cup {TheMerges[j].buddy : j \in DOMAIN TheMerges}
MergedPages ==
    BlockPages(FreedBlock, FreedOrder)
      \cup UNION {BlockPages(TheMerges[j].buddy, TheMerges[j].order) : j \in DOMAIN TheMerges}
Coalescing == Called /\ IsDealloc(TheCall) /\ TheCall.st = OK /\ TheMerges # <<>>

SlebLive(k) == live[k].by = "sleb"
LiveClass(k) == ClassOf(Max(live[k].size, live[k].align))

\* C31: the type tag written when a page is promoted to a class decodes to
\* that class when free reads it: get_type of the record of every live slot's
\* page is the class the slot was allocated from.
C31_TagDecodesToItsClass ==
    \A k \in 1 .. Len(live) :
        (SlebLive(k) /\ MdIndexOf(live[k].ptr) \in DOMAIN SLEB_ALLOCATOR.metadata)
        => get_type(SLEB_ALLOCATOR.metadata[MdIndexOf(live[k].ptr)])
              = TypeOf(LiveClass(k))

\* C33: a metadata record whose type tag is not Empty keeps its tag in every
\* step.
C33_TagNeverChanges ==
    [][\A i \in DOMAIN SLEB_ALLOCATOR.metadata :
          (SLEB_ALLOCATOR.initialized /\ SLEB_ALLOCATOR.metadata[i].sleb_type # 0)
          => SLEB_ALLOCATOR'.metadata[i].sleb_type
                = SLEB_ALLOCATOR.metadata[i].sleb_type]_vars

\* the last call freed a Sleb slot, no live slot is left on its page, and the
\* page still carries its class
C33_Witness ==
    /\ hist # <<>>
    /\ IsDealloc(Last(hist)) /\ Last(hist).route = "sleb" /\ Last(hist).st = OK
    /\ \A k \in 1 .. Len(live) :
          SlebLive(k) => MdIndexOf(live[k].ptr) # MdIndexOf(Last(hist).ptr)
    /\ SLEB_ALLOCATOR.metadata[MdIndexOf(Last(hist).ptr)].sleb_type # 0

MediumAlloc(h) == SlebAlloc(h) /\ Effective(h) \in 33 .. 2048
PromotedBitmap(c) == {0} \cup (4096 \div c .. 63)

\* C34: an alloc that promotes an Empty page to a Medium class leaves the
\* page's bitmap with bit 0 and the bits from 4096 / class_size up set, the
\* other bits clear, and returns the address of slot 0, for the classes 64 to
\* 2048.  (Once the region is reserved, every Medium alloc promotes a page
\* while the bucket of its class is empty and an Empty page is left.)
C34_PromotedBitmap ==
    [][(/\ Called /\ MediumAlloc(TheCall)
        /\ SLEB_ALLOCATOR.initialized
        /\ \A b \in DOMAIN MEDIUM_BUCKETS : MEDIUM_BUCKETS[b] = BUCKET_INDEX_NONE
        /\ EmptyPages(SLEB_ALLOCATOR) > 0)
       => /\ TheCall.st = OK
          /\ TheCall.ptr # NULL
          /\ (TheCall.ptr - SLEB_ALLOCATOR'.base) % PAGESIZE = 0
          /\ (TheCall.ptr - SLEB_ALLOCATOR'.base) \div PAGESIZE - 1
                \in DOMAIN SLEB_ALLOCATOR.metadata
          /\ get_type(SLEB_ALLOCATOR.metadata[
                 (TheCall.ptr - SLEB_ALLOCATOR'.base) \div PAGESIZE - 1]) = "Empty"
          /\ SLEB_ALLOCATOR'.metadata[
                 (TheCall.ptr - SLEB_ALLOCATOR'.base) \div PAGESIZE - 1].extra_bits
                = PromotedBitmap(ClassOf(Effective(TheCall)))]_vars

\* C39: Sleb's region is reserved by an allocation of effective size at most
\* 2048 and by no other call.
C39_ReservedBySmallAllocOnly ==
    [][(SLEB_ALLOCATOR'.initialized /\ ~SLEB_ALLOCATOR.initialized)
       => (IsAlloc(TheCall) /\ Effective(TheCall) <= 2048)]_vars

\* the spin locks (the Once of the one-time reservation is not one of them)
Locks == {"SLEB_ALLOCATOR", "ALLOCATOR", "TINY_BUCKETS", "MEDIUM_BUCKETS"}
Holds(c) == {l \in Locks : locks[l] = c}
Acquires(c, l) == locks[l] # c /\ locks'[l] = c

\* C40 as stated: after the reservation no call acquires a lock while it
\* holds another lock.
C40_NeverNestsLocks ==
    [][\A c \in Ctx, l \in Locks :
          (SLEB_ALLOCATOR.initialized /\ Acquires(c, l)) => Holds(c) = {}]_vars

\* C40: after the reservation the only lock a call acquires while it holds
\* another is a bucket static (TINY_BUCKETS or MEDIUM_BUCKETS), acquired while
\* holding the Sleb lock and nothing else; the Sleb and Buddy locks are only
\* acquired by a context that holds no lock.
C40_OnlyBucketsNest ==
    [][\A c \in Ctx, l \in Locks :
          (SLEB_ALLOCATOR.initialized /\ Acquires(c, l))
          => \/ Holds(c) = {}
             \/ /\ l \in {"TINY_BUCKETS", "MEDIUM_BUCKETS"}
                /\ Holds(c) = {"SLEB_ALLOCATOR"}]_vars

\* a context runs alloc_tiny with the Sleb lock and TINY_BUCKETS both held,
\* while another context is in a call on the Buddy side
C40_Witness ==
    \E c, d \in Ctx :
        /\ c # d /\ status = OK /\ SLEB_ALLOCATOR.initialized
        /\ Holds(c) = {"SLEB_ALLOCATOR", "TINY_BUCKETS"}
        /\ context[c].pc = "bucket_body"
        /\ Holds(d) = {"ALLOCATOR"}

\* the slot of a page of class c that address ptr is
SlotOf(ptr, c) ==
    IF c = 32 THEN ((ptr % PAGESIZE) - 8 * SMALL_32_BITFIELD_SIZE_64) \div 32
    ELSE (ptr % PAGESIZE) \div c
SlebFree(h) == IsDealloc(h) /\ h.by = "sleb"
ClassOfCall(h) == ClassOf(Effective(h))

NamesPageOf(bucket, c) ==
    \/ bucket = BUCKET_INDEX_NONE
    \/ /\ bucket \in DOMAIN SLEB_ALLOCATOR.metadata
       /\ SLEB_ALLOCATOR.metadata[bucket].sleb_type = ClassTag(c)

CompletelyFull(sleb, i, c) ==
    IF c = 32
    THEN \A u \in 0 .. Capacity(32) - 1 : (u % 64) \in sleb.bitfield[i][u \div 64]
    ELSE sleb.metadata[i].extra_bits = U64_MAX
Links(sleb) ==
    [j \in DOMAIN sleb.metadata |->
        <<sleb.metadata[j].next_index, sleb.metadata[j].prev_index>>]

====
